---- MODULE Spec2Model ----
(***************************************************************************)
(* Model of the two maintenance scripts of NecroVR/VTT:                    *)
(*   scripts/utilities/fix_esm_imports.py   (the import extension fixer)   *)
(*   scripts/utilities/fix-grid-snapping.py (the grid-snap patcher)        *)
(*                                                                         *)
(* Text is modelled as sequences of tokens.  A specifier is a sequence of  *)
(* path atoms ("." "/" "foo" "index" "js"); a source statement is the      *)
(* token sequence before a string literal, the two quote characters, the   *)
(* specifier, and the tokens after it.  Tokens of a statement are          *)
(* separated by white space, except "(" and ")" which are attached to      *)
(* their neighbours, so `import('./x')` is <<"import","(">> ' ./x ' <<")">>.*)
(* Every statement holds exactly one string literal and no brace group     *)
(* holds a quote, so a match of either regular expression lies inside one  *)
(* statement.  The patched component file is a sequence of lines.          *)
(***************************************************************************)
EXTENDS Integers, Sequences, FiniteSets, TLC

(***************************************************************************)
(* Bounds of the model                                                     *)
(***************************************************************************)
MaxFiles == 2
MaxFileStmts == 2
MaxIOErrors == 1
MaxRuns == 2
MaxChunks == 3
MaxGridRuns == 2

(* main(), directories: the three source roots that are processed *)
NumRoots == 3

VARIABLES
  dirs, indexed,
  fpc, file_dir, fdisk, content, original_content, changes, fresult, fwrites,
  fout, rew1, rew2,
  pc, disk, d, f, files_modified, dir_changes, total_files, total_changes,
  status, out, run, ioerrs, prev_errs, writes, last, seen, start_disk,
  gpc, gdisk, gstart, gcontent, gupdated, gout, gwrites, gruns, gprev

fsVars == <<dirs, indexed>>
fileVars == <<fpc, file_dir, fdisk, content, original_content, changes,
              fresult, fwrites, fout, rew1, rew2>>
runVars == <<pc, disk, d, f, files_modified, dir_changes, total_files,
             total_changes, status, out, run, ioerrs, prev_errs, writes, last,
             seen, start_disk>>
gridVars == <<gpc, gdisk, gstart, gcontent, gupdated, gout, gwrites, gruns, gprev>>
vars == <<fsVars, fileVars, runVars, gridVars>>

(***************************************************************************)
(* Sequences                                                               *)
(***************************************************************************)
SeqUpTo(S, n) == UNION {[1..k -> S] : k \in 0..n}

StartsWith(s, p) == Len(s) >= Len(p) /\ SubSeq(s, 1, Len(p)) = p

EndsWith(s, p) == Len(s) >= Len(p) /\ SubSeq(s, Len(s) - Len(p) + 1, Len(s)) = p

Prefixes(s) == {SubSeq(s, 1, k) : k \in 0..Len(s)}

(***************************************************************************)
(* fix_esm_imports.py : classification and resolution of a specifier       *)
(***************************************************************************)
DotJs == <<".", "js">>
SlashIndex == <<"/", "index">>
SlashIndexJs == <<"/", "index", ".", "js">>

(* a classification that forgets the .js test *)
needs_js_extension_keeps_js(import_path) ==
  StartsWith(import_path, <<".", "/">>) \/ StartsWith(import_path, <<".", ".", "/">>)

needs_js_extension(import_path) ==
  IF EndsWith(import_path, DotJs) THEN FALSE
  ELSE IF ~(StartsWith(import_path, <<".", "/">>)
            \/ StartsWith(import_path, <<".", ".", "/">>)) THEN FALSE
  ELSE TRUE

(* str.split('/') of a specifier: its segments, each a sequence of atoms *)
RECURSIVE SplitPath(_)
SplitPath(p) ==
  IF p = <<>> THEN << <<>> >>
  ELSE LET rest == SplitPath(Tail(p))
       IN IF Head(p) = "/" THEN << <<>> >> \o rest
          ELSE << <<Head(p)>> \o Head(rest) >> \o Tail(rest)

(* (file_dir / import_path).resolve(): "." and empty segments dropped, ".." *)
(* removes the last segment                                                 *)
RECURSIVE Walk(_, _)
Walk(base, segs) ==
  IF segs = <<>> THEN base
  ELSE LET s == Head(segs)
           nb == IF s = <<>> \/ s = <<".">> THEN base
                 ELSE IF s = <<".", ".">>
                      THEN (IF base = <<>> THEN base ELSE SubSeq(base, 1, Len(base) - 1))
                      ELSE Append(base, s)
       IN Walk(nb, Tail(segs))

Resolve(dir, import_path) == Walk(dir, SplitPath(import_path))

is_dir(fsd, p) == p \in fsd

index_ts_exists(fsi, p) == p \in fsi

(* a resolution that forgets the /index test *)
add_js_extension_dup_index(import_path, dir, fsd, fsi) ==
  IF ~needs_js_extension(import_path) THEN import_path
  ELSE IF is_dir(fsd, Resolve(dir, import_path))
          /\ index_ts_exists(fsi, Resolve(dir, import_path))
       THEN import_path \o SlashIndexJs
       ELSE import_path \o DotJs

add_js_extension(import_path, dir, fsd, fsi) ==
  IF ~needs_js_extension(import_path) THEN import_path
  ELSE LET resolved_path == Resolve(dir, import_path)
       IN IF is_dir(fsd, resolved_path) /\ index_ts_exists(fsi, resolved_path)
          THEN IF EndsWith(import_path, SlashIndex)
               THEN import_path \o DotJs
               ELSE import_path \o SlashIndexJs
          ELSE import_path \o DotJs

(***************************************************************************)
(* fix_esm_imports.py : the two regular expressions                        *)
(***************************************************************************)
Quotes == {"'", "\""}

(* tokens matched by \w+ ; "reimport" stands for an identifier that ends   *)
(* with the letters of a keyword                                           *)
Words == {"import", "export", "type", "name", "from", "as", "reimport"}

(* \{[^}]+\} | [*] | \w+ *)
Clause == {"{a}", "*"} \cup Words

FromAs == {"from", "as"}

(* the patterns are not anchored: (?:import|export) matches the tail of a word *)
Keyword1 == {"import", "export", "reimport"}
Keyword2 == {"import", "reimport"}

(* (\.\./[^'"]+|\./[^'"]+) *)
RelativePath(p) ==
  \/ StartsWith(p, <<".", ".", "/">>) /\ Len(p) > 3
  \/ StartsWith(p, <<".", "/">>) /\ Len(p) > 2

(* (?:\s+(?:type\s+)?(?:\{[^}]+\}|[*]|\w+))?(?:\s+(?:from|as))?\s+ *)
ClauseShape(r) ==
  \/ Len(r) = 0
  \/ Len(r) = 1 /\ r[1] \in Clause
  \/ Len(r) = 2 /\ r[1] = "type" /\ r[2] \in Clause
  \/ Len(r) = 2 /\ r[1] \in Clause /\ r[2] \in FromAs
  \/ Len(r) = 3 /\ r[1] = "type" /\ r[2] \in Clause /\ r[3] \in FromAs

pattern1(s) ==
  /\ RelativePath(s.path)
  /\ \E k \in 1..Len(s.pre) :
       /\ s.pre[k] \in Keyword1
       /\ ClauseShape(SubSeq(s.pre, k + 1, Len(s.pre)))

(* import\((['"])(\.\./[^'"]+|\./[^'"]+)(['"])\) *)
pattern2(s) ==
  /\ RelativePath(s.path)
  /\ Len(s.pre) >= 2
  /\ s.pre[Len(s.pre)] = "("
  /\ s.pre[Len(s.pre) - 1] \in Keyword2
  /\ Len(s.post) >= 1
  /\ s.post[1] = ")"

(***************************************************************************)
(* fix_esm_imports.py : fix_imports_in_file                                *)
(***************************************************************************)
RECURSIVE SumSeq(_)
SumSeq(ns) == IF ns = <<>> THEN 0 ELSE Head(ns) + SumSeq(Tail(ns))

(* the replacement callbacks return the new text of one match and what     *)
(* they add to the nonlocal counter `changes`                              *)

(* a callback that forgets the counter *)
replace_import_export_uncounted(s, dir, fsd, fsi) ==
  IF needs_js_extension(s.path)
  THEN [stmt |-> [s EXCEPT !.path = add_js_extension(s.path, dir, fsd, fsi),
                           !.cq = s.oq],
        n |-> 0]
  ELSE [stmt |-> s, n |-> 0]

replace_import_export(s, dir, fsd, fsi) ==
  IF needs_js_extension(s.path)
  THEN [stmt |-> [s EXCEPT !.path = add_js_extension(s.path, dir, fsd, fsi),
                           !.cq = s.oq],
        n |-> 1]
  ELSE [stmt |-> s, n |-> 0]

replace_dynamic_import(s, dir, fsd, fsi) ==
  IF needs_js_extension(s.path)
  THEN [stmt |-> [s EXCEPT !.path = add_js_extension(s.path, dir, fsd, fsi),
                           !.cq = s.oq],
        n |-> 1]
  ELSE [stmt |-> s, n |-> 0]

(* content = re.sub(pattern1, replace_import_export, content) *)
Pass1(c, dir, fsd, fsi) ==
  LET r == [i \in 1..Len(c) |->
              IF pattern1(c[i]) THEN replace_import_export(c[i], dir, fsd, fsi)
              ELSE [stmt |-> c[i], n |-> 0]]
  IN [content |-> [i \in 1..Len(c) |-> r[i].stmt],
      n |-> SumSeq([i \in 1..Len(c) |-> r[i].n]),
      rew |-> {i \in 1..Len(c) : r[i].stmt # c[i]}]

(* content = re.sub(pattern2, replace_dynamic_import, content) *)
Pass2(c, dir, fsd, fsi) ==
  LET r == [i \in 1..Len(c) |->
              IF pattern2(c[i]) THEN replace_dynamic_import(c[i], dir, fsd, fsi)
              ELSE [stmt |-> c[i], n |-> 0]]
  IN [content |-> [i \in 1..Len(c) |-> r[i].stmt],
      n |-> SumSeq([i \in 1..Len(c) |-> r[i].n]),
      rew |-> {i \in 1..Len(c) : r[i].stmt # c[i]}]

(* the file after a failed write: untouched when open() failed, cut short  *)
(* when the write itself failed                                            *)
FailedWrite(old, new) == {old} \cup (Prefixes(new) \ {new})

NoResult == [was_modified |-> FALSE, num_changes |-> 0]

(***************************************************************************)
(* Inputs of the per-file specification                                    *)
(***************************************************************************)
(* main(), directories: the roots, each named by one path segment *)
RootNames == <<"apps/server/src", "packages/shared/src", "packages/database/src">>

Roots == 1..NumRoots

RootPath(i) == << <<RootNames[i]>> >>

Foo == <<"foo">>
Index == <<"index">>
Sub == <<"sub">>

CandidateDirs ==
  { RootPath(1) \o <<Foo>>, RootPath(1) \o <<Foo, Index>>,
    RootPath(1) \o <<Sub>>, RootPath(1) \o <<Sub, Foo>> }

Parent(p) == SubSeq(p, 1, Len(p) - 1)

(* directory layouts: closed under parent; index.ts only in directories *)
FSConfigs ==
  { c \in [dirs : SUBSET CandidateDirs, indexed : SUBSET (CandidateDirs \ {RootPath(1) \o <<Sub>>})] :
      /\ c.indexed \subseteq c.dirs
      /\ \A p \in c.dirs : Len(p) > 2 => Parent(p) \in c.dirs }

PrefixShapes ==
  { <<"import">>,
    <<"import", "name", "from">>,
    <<"import", "{a}", "from">>,
    <<"export", "{a}", "from">>,
    <<"export", "*", "from">>,
    <<"import", "*", "as", "name", "from">>,
    <<"export", "*", "as", "name", "from">>,
    <<"import", "type", "{a}", "from">>,
    <<"import", "type", "name", "from">>,
    <<"export", "type", "{a}", "from">>,
    <<"export", "type", "*", "from">>,
    <<"import", "type", "*", "as", "name", "from">>,
    <<"import", "name", ",", "{a}", "from">>,
    <<"import", "type", "from">>,
    <<"reimport">>,
    <<"import", "(">>,
    <<"name", "=", "import", "(">>,
    <<"reimport", "(">>,
    <<"name", "(">>,
    <<"name", "=">> }

Paths ==
  { <<".", "/", "foo">>,
    <<".", "/", "foo", "/", "index">>,
    <<".", ".", "/", "foo">>,
    <<".", "/", "foo", ".", "js">>,
    <<".", ".", "/", "foo", "/", "index", ".", "js">>,
    <<".", "/", "foo", "/">>,
    <<".", "/", "index">>,
    <<".", "/">>,
    <<"foo">> }

Posts == { <<>>, <<")">> }

AllStmts == [pre : PrefixShapes, oq : Quotes, path : Paths, cq : Quotes, post : Posts]

Stmt(pre, q, path, post) == [pre |-> pre, oq |-> q, path |-> path, cq |-> q, post |-> post]

(* statements of the multi-statement files *)
CoreStmts ==
  { Stmt(<<"import", "name", "from">>, "'", <<".", "/", "foo">>, <<>>),
    Stmt(<<"import", "*", "as", "name", "from">>, "'", <<".", "/", "foo">>, <<>>),
    Stmt(<<"import", "(">>, "\"", <<".", "/", "foo">>, <<")">>),
    Stmt(<<"export", "*", "from">>, "'", <<".", "/", "foo", ".", "js">>, <<>>) }

FileInputs == {<<s>> : s \in AllStmts} \cup SeqUpTo(CoreStmts, MaxFileStmts)

NoLast == [was_modified |-> FALSE, num_changes |-> 0, rew1 |-> {}, rew2 |-> {}]

IdleFile ==
  /\ fpc = "idle" /\ file_dir = <<>> /\ fdisk = <<>> /\ content = <<>>
  /\ original_content = <<>> /\ changes = 0 /\ fresult = NoResult
  /\ fwrites = 0 /\ fout = <<>> /\ rew1 = {} /\ rew2 = {}

IdleRun ==
  /\ pc = "idle" /\ disk = <<>> /\ d = 0 /\ f = 0 /\ files_modified = 0
  /\ dir_changes = 0 /\ total_files = 0 /\ total_changes = 0 /\ status = -1
  /\ out = <<>> /\ run = 0 /\ ioerrs = 0 /\ prev_errs = 0 /\ writes = {}
  /\ last = NoLast /\ seen = {} /\ start_disk = <<>>

IdleGrid ==
  /\ gpc = "idle" /\ gdisk = <<>> /\ gstart = <<>> /\ gcontent = <<>>
  /\ gupdated = <<>> /\ gout = <<>> /\ gwrites = 0 /\ gruns = 0 /\ gprev = "none"

InitFile ==
  /\ \E c \in FSConfigs :
       /\ dirs = {RootPath(1)} \cup c.dirs
       /\ indexed = c.indexed
  /\ file_dir \in {RootPath(1), RootPath(1) \o <<Sub>>} \cap dirs
  /\ fdisk \in FileInputs
  /\ fpc = "read"
  /\ content = <<>> /\ original_content = <<>> /\ changes = 0
  /\ fresult = NoResult /\ fwrites = 0 /\ fout = <<>> /\ rew1 = {} /\ rew2 = {}
  /\ IdleRun /\ IdleGrid

(* open(file_path, 'r') or f.read() raises: the error is printed *)
F_ReadError ==
  /\ fpc = "read"
  /\ fpc' = "done"
  /\ fout' = Append(fout, "Error reading")
  /\ fresult' = [was_modified |-> FALSE, num_changes |-> 0]
  /\ UNCHANGED <<file_dir, fdisk, content, original_content, changes, fwrites, rew1, rew2>>
  /\ UNCHANGED <<fsVars, runVars, gridVars>>

F_Read ==
  /\ fpc = "read"
  /\ content' = fdisk
  /\ original_content' = fdisk
  /\ changes' = 0
  /\ fpc' = "pass1"
  /\ UNCHANGED <<file_dir, fdisk, fresult, fwrites, fout, rew1, rew2>>
  /\ UNCHANGED <<fsVars, runVars, gridVars>>

F_Pass1 ==
  /\ fpc = "pass1"
  /\ LET p == Pass1(content, file_dir, dirs, indexed)
     IN /\ content' = p.content
        /\ changes' = changes + p.n
        /\ rew1' = p.rew
  /\ fpc' = "pass2"
  /\ UNCHANGED <<file_dir, fdisk, original_content, fresult, fwrites, fout, rew2>>
  /\ UNCHANGED <<fsVars, runVars, gridVars>>

F_Pass2 ==
  /\ fpc = "pass2"
  /\ LET p == Pass2(content, file_dir, dirs, indexed)
     IN /\ content' = p.content
        /\ changes' = changes + p.n
        /\ rew2' = p.rew
  /\ fpc' = "compare"
  /\ UNCHANGED <<file_dir, fdisk, original_content, fresult, fwrites, fout, rew1>>
  /\ UNCHANGED <<fsVars, runVars, gridVars>>

(* content == original_content: return False, 0 *)
F_Unchanged ==
  /\ fpc = "compare"
  /\ content = original_content
  /\ fresult' = [was_modified |-> FALSE, num_changes |-> 0]
  /\ fpc' = "done"
  /\ UNCHANGED <<file_dir, fdisk, content, original_content, changes, fwrites, fout, rew1, rew2>>
  /\ UNCHANGED <<fsVars, runVars, gridVars>>

F_Write ==
  /\ fpc = "compare"
  /\ content # original_content
  /\ fdisk' = content
  /\ fwrites' = fwrites + 1
  /\ fresult' = [was_modified |-> TRUE, num_changes |-> changes]
  /\ fpc' = "done"
  /\ UNCHANGED <<file_dir, content, original_content, changes, fout, rew1, rew2>>
  /\ UNCHANGED <<fsVars, runVars, gridVars>>

F_WriteError ==
  /\ fpc = "compare"
  /\ content # original_content
  /\ fdisk' \in FailedWrite(fdisk, content)
  /\ fwrites' = fwrites + 1
  /\ fout' = Append(fout, "Error writing")
  /\ fresult' = [was_modified |-> FALSE, num_changes |-> 0]
  /\ fpc' = "done"
  /\ UNCHANGED <<file_dir, content, original_content, changes, rew1, rew2>>
  /\ UNCHANGED <<fsVars, runVars, gridVars>>

NextFile ==
  \/ F_ReadError \/ F_Read \/ F_Pass1 \/ F_Pass2
  \/ F_Unchanged \/ F_Write \/ F_WriteError

SpecFile == InitFile /\ [][NextFile]_vars

(***************************************************************************)
(* fix_esm_imports.py : fix_imports_in_directory and main                  *)
(***************************************************************************)
(* the value of content, changes after both passes of fix_imports_in_file *)
FixContent(c, dir, fsd, fsi) ==
  LET p1 == Pass1(c, dir, fsd, fsi)
      p2 == Pass2(p1.content, dir, fsd, fsi)
  IN [content |-> p2.content, changes |-> p1.n + p2.n, rew1 |-> p1.rew, rew2 |-> p2.rew]

Msg(m, a, b) == [msg |-> m, a |-> a, b |-> b]

(* files of the whole-run specification *)
RunFiles ==
  LET static == Stmt(<<"import", "name", "from">>, "'", <<".", "/", "foo">>, <<>>)
      nspace == Stmt(<<"import", "*", "as", "name", "from">>, "'", <<".", "/", "foo">>, <<>>)
      dynamic == Stmt(<<"import", "(">>, "\"", <<".", "/", "foo">>, <<")">>)
      done == Stmt(<<"export", "*", "from">>, "'", <<".", "/", "foo", ".", "js">>, <<>>)
  IN { <<static>>, <<nspace>>, <<done>>, <<dynamic, static>>, <<static, nspace>> }

NonDecreasing(pl) == \A i \in 1..(Len(pl) - 1) : pl[i][2] <= pl[i + 1][2]

Placements == {pl \in SeqUpTo(RunFiles \X Roots, MaxFiles) : NonDecreasing(pl)}

FilesOf(pl, r) ==
  LET mine == SelectSeq(pl, LAMBDA x : x[2] = r)
  IN [i \in 1..Len(mine) |-> mine[i][1]]

InitRun ==
  /\ \E pl \in Placements, E \in SUBSET Roots :
       /\ \A i \in 1..Len(pl) : pl[i][2] \in E
       /\ disk = [r \in Roots |-> FilesOf(pl, r)]
       /\ dirs = {RootPath(r) : r \in E}
                 \cup (IF 1 \in E THEN {RootPath(1) \o <<Foo>>} ELSE {})
       /\ indexed = (IF 1 \in E THEN {RootPath(1) \o <<Foo>>} ELSE {})
  /\ pc = "start" /\ run = 1
  /\ d = 0 /\ f = 0 /\ files_modified = 0 /\ dir_changes = 0
  /\ total_files = 0 /\ total_changes = 0 /\ status = -1 /\ out = <<>>
  /\ ioerrs = 0 /\ prev_errs = 0 /\ writes = {} /\ last = NoLast /\ seen = {}
  /\ start_disk = disk
  /\ IdleFile /\ IdleGrid

(* main: banner, counters, first directory *)
M_Start ==
  /\ pc = "start"
  /\ out' = Append(out, Msg("ESM Import Fixer", 0, 0))
  /\ total_files' = 0
  /\ total_changes' = 0
  /\ d' = 1
  /\ pc' = "loop"
  /\ UNCHANGED <<disk, f, files_modified, dir_changes, status, run, ioerrs,
                 prev_errs, writes, last, seen, start_disk>>
  /\ UNCHANGED <<fsVars, fileVars, gridVars>>

(* main: if not directory.exists(): warning, continue *)
M_DirMissing ==
  /\ pc = "loop"
  /\ d <= NumRoots
  /\ ~is_dir(dirs, RootPath(d))
  /\ out' = Append(out, Msg("[WARNING] Directory not found", d, 0))
  /\ d' = d + 1
  /\ UNCHANGED <<pc, disk, f, files_modified, dir_changes, total_files, total_changes,
                 status, run, ioerrs, prev_errs, writes, last, seen, start_disk>>
  /\ UNCHANGED <<fsVars, fileVars, gridVars>>

(* fix_imports_in_directory: counters, rglob, the Processing line *)
D_Enter ==
  /\ pc = "loop"
  /\ d <= NumRoots
  /\ is_dir(dirs, RootPath(d))
  /\ files_modified' = 0
  /\ dir_changes' = 0
  /\ out' = Append(out, Msg("Processing", Len(disk[d]), d))
  /\ f' = 1
  /\ pc' = "files"
  /\ UNCHANGED <<disk, d, total_files, total_changes, status, run, ioerrs,
                 prev_errs, writes, last, seen, start_disk>>
  /\ UNCHANGED <<fsVars, fileVars, gridVars>>

(* a read failure that is not caught and ends the run *)
R_ReadError_aborts ==
  /\ pc = "files"
  /\ f <= Len(disk[d])
  /\ ioerrs < MaxIOErrors
  /\ ioerrs' = ioerrs + 1
  /\ out' = Append(out, Msg("Error reading", d, f))
  /\ status' = 1
  /\ pc' = "done"
  /\ UNCHANGED <<disk, d, f, files_modified, dir_changes, total_files, total_changes,
                 run, prev_errs, writes, last, seen, start_disk>>
  /\ UNCHANGED <<fsVars, fileVars, gridVars>>

(* one iteration of the loop over ts_files: the read fails *)
R_ReadError ==
  /\ pc = "files"
  /\ f <= Len(disk[d])
  /\ ioerrs < MaxIOErrors
  /\ ioerrs' = ioerrs + 1
  /\ out' = Append(out, Msg("Error reading", d, f))
  /\ last' = NoLast
  /\ seen' = seen \cup {<<d, f>>}
  /\ f' = f + 1
  /\ UNCHANGED <<pc, disk, d, files_modified, dir_changes, total_files, total_changes,
                 status, run, prev_errs, writes, start_disk>>
  /\ UNCHANGED <<fsVars, fileVars, gridVars>>

(* one iteration: both passes leave the content as it was *)
R_Unchanged ==
  /\ pc = "files"
  /\ f <= Len(disk[d])
  /\ LET r == FixContent(disk[d][f], RootPath(d), dirs, indexed)
     IN /\ r.content = disk[d][f]
        /\ last' = [was_modified |-> FALSE, num_changes |-> 0,
                    rew1 |-> r.rew1, rew2 |-> r.rew2]
  /\ seen' = seen \cup {<<d, f>>}
  /\ f' = f + 1
  /\ UNCHANGED <<pc, disk, d, files_modified, dir_changes, total_files, total_changes,
                 status, out, run, ioerrs, prev_errs, writes, start_disk>>
  /\ UNCHANGED <<fsVars, fileVars, gridVars>>

(* a write that stores the content as it was read *)
R_Written_stale ==
  /\ pc = "files"
  /\ f <= Len(disk[d])
  /\ LET r == FixContent(disk[d][f], RootPath(d), dirs, indexed)
     IN /\ r.content # disk[d][f]
        /\ last' = [was_modified |-> TRUE, num_changes |-> r.changes,
                    rew1 |-> r.rew1, rew2 |-> r.rew2]
        /\ files_modified' = files_modified + 1
        /\ dir_changes' = dir_changes + r.changes
        /\ out' = Append(out, Msg("[OK]", f, r.changes))
  /\ writes' = writes \cup {<<d, f>>}
  /\ seen' = seen \cup {<<d, f>>}
  /\ f' = f + 1
  /\ UNCHANGED <<pc, disk, d, total_files, total_changes, status, run, ioerrs,
                 prev_errs, start_disk>>
  /\ UNCHANGED <<fsVars, fileVars, gridVars>>

(* one iteration: the content changed and is written back *)
R_Written ==
  /\ pc = "files"
  /\ f <= Len(disk[d])
  /\ LET r == FixContent(disk[d][f], RootPath(d), dirs, indexed)
     IN /\ r.content # disk[d][f]
        /\ disk' = [disk EXCEPT ![d][f] = r.content]
        /\ last' = [was_modified |-> TRUE, num_changes |-> r.changes,
                    rew1 |-> r.rew1, rew2 |-> r.rew2]
        /\ files_modified' = files_modified + 1
        /\ dir_changes' = dir_changes + r.changes
        /\ out' = Append(out, Msg("[OK]", f, r.changes))
  /\ writes' = writes \cup {<<d, f>>}
  /\ seen' = seen \cup {<<d, f>>}
  /\ f' = f + 1
  /\ UNCHANGED <<pc, d, total_files, total_changes, status, run, ioerrs,
                 prev_errs, start_disk>>
  /\ UNCHANGED <<fsVars, fileVars, gridVars>>

(* one iteration: the content changed and the write fails *)
R_WriteError ==
  /\ pc = "files"
  /\ f <= Len(disk[d])
  /\ ioerrs < MaxIOErrors
  /\ LET r == FixContent(disk[d][f], RootPath(d), dirs, indexed)
     IN /\ r.content # disk[d][f]
        /\ \E left \in FailedWrite(disk[d][f], r.content) :
             disk' = [disk EXCEPT ![d][f] = left]
        /\ last' = [was_modified |-> FALSE, num_changes |-> 0,
                    rew1 |-> r.rew1, rew2 |-> r.rew2]
  /\ ioerrs' = ioerrs + 1
  /\ out' = Append(out, Msg("Error writing", d, f))
  /\ writes' = writes \cup {<<d, f>>}
  /\ seen' = seen \cup {<<d, f>>}
  /\ f' = f + 1
  /\ UNCHANGED <<pc, d, files_modified, dir_changes, total_files, total_changes,
                 status, run, prev_errs, start_disk>>
  /\ UNCHANGED <<fsVars, fileVars, gridVars>>

(* fix_imports_in_directory returns; main adds its counts *)
D_Return ==
  /\ pc = "files"
  /\ f > Len(disk[d])
  /\ total_files' = total_files + files_modified
  /\ total_changes' = total_changes + dir_changes
  /\ d' = d + 1
  /\ pc' = "loop"
  /\ UNCHANGED <<disk, f, files_modified, dir_changes, status, out, run, ioerrs,
                 prev_errs, writes, last, seen, start_disk>>
  /\ UNCHANGED <<fsVars, fileVars, gridVars>>

(* main: the summary block and the completion status *)
M_Summary ==
  /\ pc = "loop"
  /\ d > NumRoots
  /\ out' = Append(out, Msg("Summary", total_files, total_changes))
  /\ status' = (IF total_files > 0 THEN 0 ELSE 1)
  /\ pc' = "done"
  /\ UNCHANGED <<disk, d, f, files_modified, dir_changes, total_files, total_changes,
                 run, ioerrs, prev_errs, writes, last, seen, start_disk>>
  /\ UNCHANGED <<fsVars, fileVars, gridVars>>

(* the script is started again on the tree the previous run left *)
M_Rerun ==
  /\ pc = "done"
  /\ run < MaxRuns
  /\ run' = run + 1
  /\ pc' = "start"
  /\ prev_errs' = ioerrs
  /\ start_disk' = disk
  /\ d' = 0 /\ f' = 0 /\ files_modified' = 0 /\ dir_changes' = 0
  /\ total_files' = 0 /\ total_changes' = 0 /\ status' = -1 /\ out' = <<>>
  /\ writes' = {} /\ last' = NoLast /\ seen' = {}
  /\ UNCHANGED <<disk, ioerrs>>
  /\ UNCHANGED <<fsVars, fileVars, gridVars>>

NextRun ==
  \/ M_Start \/ M_DirMissing \/ D_Enter
  \/ R_ReadError \/ R_Unchanged \/ R_Written \/ R_WriteError
  \/ D_Return \/ M_Summary \/ M_Rerun

SpecRun == InitRun /\ [][NextRun]_vars

(***************************************************************************)
(* fix-grid-snapping.py                                                    *)
(* The file is a sequence of lines; each line of the two patterns and of   *)
(* the two replacements is one token, equal tokens for equal lines.        *)
(***************************************************************************)
snap_to_grid_pattern ==
  << "function snapToGrid(x: number, y: number): { x: number; y: number } {",
     "if (!gridSnap) return { x, y };",
     "const gridSize = scene.gridSize ?? 100;",
     "const cellWidth = scene.gridWidth ?? gridSize;",
     "const cellHeight = scene.gridHeight ?? gridSize;",
     "return {",
     "x: Math.round(x / cellWidth) * cellWidth,",
     "y: Math.round(y / cellHeight) * cellHeight,",
     "};",
     "}" >>

snap_to_grid_replacement ==
  << "function snapToGrid(x: number, y: number): { x: number; y: number } {",
     "if (!gridSnap) return { x, y };",
     "const gridSize = scene.gridSize ?? 100;",
     "const cellWidth = scene.gridWidth ?? gridSize;",
     "const cellHeight = scene.gridHeight ?? gridSize;",
     "const offsetX = scene.gridOffsetX ?? 0;",
     "const offsetY = scene.gridOffsetY ?? 0;",
     "return {",
     "x: Math.round((x - offsetX) / cellWidth) * cellWidth + offsetX,",
     "y: Math.round((y - offsetY) / cellHeight) * cellHeight + offsetY,",
     "};",
     "}" >>

snap_to_grid_center_pattern ==
  << "function snapToGridCenter(x: number, y: number): { x: number; y: number } {",
     "const gridSize = scene.gridSize ?? 100;",
     "const cellWidth = scene.gridWidth ?? gridSize;",
     "const cellHeight = scene.gridHeight ?? gridSize;",
     "// Snap to center of cell (add half grid size after rounding to corner)",
     "return {",
     "x: Math.floor(x / cellWidth) * cellWidth + cellWidth / 2,",
     "y: Math.floor(y / cellHeight) * cellHeight + cellHeight / 2,",
     "};",
     "}" >>

snap_to_grid_center_replacement ==
  << "function snapToGridCenter(x: number, y: number): { x: number; y: number } {",
     "const gridSize = scene.gridSize ?? 100;",
     "const cellWidth = scene.gridWidth ?? gridSize;",
     "const cellHeight = scene.gridHeight ?? gridSize;",
     "const offsetX = scene.gridOffsetX ?? 0;",
     "const offsetY = scene.gridOffsetY ?? 0;",
     "// Snap to center of cell (add half grid size after rounding to corner)",
     "return {",
     "x: Math.floor((x - offsetX) / cellWidth) * cellWidth + cellWidth / 2 + offsetX,",
     "y: Math.floor((y - offsetY) / cellHeight) * cellHeight + cellHeight / 2 + offsetY,",
     "};",
     "}" >>

MatchAt(text, pat, i) ==
  i + Len(pat) - 1 <= Len(text) /\ SubSeq(text, i, i + Len(pat) - 1) = pat

(* re.sub(pattern, replacement, text): every match, leftmost first, not    *)
(* overlapping, is replaced; the replacement is not scanned again          *)
RECURSIVE SubFrom(_, _, _, _)
SubFrom(text, pat, rep, i) ==
  IF i > Len(text) THEN <<>>
  ELSE IF MatchAt(text, pat, i)
       THEN rep \o SubFrom(text, pat, rep, i + Len(pat))
       ELSE <<text[i]>> \o SubFrom(text, pat, rep, i + 1)

(* a substitution that stops after the first match *)
re_sub_first_only(pat, rep, text) ==
  IF \E i \in 1..Len(text) : MatchAt(text, pat, i)
  THEN LET i == CHOOSE j \in 1..Len(text) :
                  MatchAt(text, pat, j) /\ \A k \in 1..(j - 1) : ~MatchAt(text, pat, k)
       IN SubSeq(text, 1, i - 1) \o rep \o SubSeq(text, i + Len(pat), Len(text))
  ELSE text

re_sub(pat, rep, text) == SubFrom(text, pat, rep, 1)

(* 'function snapToGrid' in content: the lines that hold this substring *)
HasFunctionName(line) ==
  line \in {"function snapToGrid(x: number, y: number): { x: number; y: number } {", "function snapToGridCenter(x: number, y: number): { x: number; y: number } {",
            "function snapToGrid(x, y) {"}

(* content.find('function snapToGrid'): first line holding it, 0 when none *)
Find(text) ==
  IF \E i \in 1..Len(text) : HasFunctionName(text[i])
  THEN CHOOSE i \in 1..Len(text) :
         HasFunctionName(text[i]) /\ \A k \in 1..(i - 1) : ~HasFunctionName(text[k])
  ELSE 0

(* pieces the component file is put together from *)
Chunks ==
  { snap_to_grid_pattern,
    snap_to_grid_replacement,
    snap_to_grid_center_pattern,
    snap_to_grid_center_replacement,
    SubSeq(snap_to_grid_pattern, 1, 5),
    SubSeq(snap_to_grid_pattern, 6, 10),
    <<"function snapToGrid(x, y) {", "return { x, y };", "}">>,
    <<"let gridSnap = true;">> }

RECURSIVE Concat(_)
Concat(ss) == IF ss = <<>> THEN <<>> ELSE Head(ss) \o Concat(Tail(ss))

GridFiles == {Concat(cs) : cs \in SeqUpTo(Chunks, MaxChunks)}

InitGrid ==
  /\ gdisk \in GridFiles
  /\ gstart = gdisk
  /\ gpc = "read" /\ gruns = 1
  /\ gcontent = <<>> /\ gupdated = <<>> /\ gout = <<>> /\ gwrites = 0
  /\ gprev = "none"
  /\ dirs = {} /\ indexed = {}
  /\ IdleFile /\ IdleRun

(* how a run of the script ends: normally after the write or after the    *)
(* diagnostic, or with a traceback when the read or the write raises       *)
GridExits == {"written", "unchanged", "read_failed", "write_failed"}

(* open(file_path, 'r') raises: the script ends with a traceback *)
G_ReadError ==
  /\ gpc = "read"
  /\ gpc' = "read_failed"
  /\ UNCHANGED <<gdisk, gstart, gcontent, gupdated, gout, gwrites, gruns, gprev>>
  /\ UNCHANGED <<fsVars, fileVars, runVars>>

G_Read ==
  /\ gpc = "read"
  /\ gcontent' = gdisk
  /\ gpc' = "sub"
  /\ UNCHANGED <<gdisk, gstart, gupdated, gout, gwrites, gruns, gprev>>
  /\ UNCHANGED <<fsVars, fileVars, runVars>>

(* Apply replacements *)
G_Sub ==
  /\ gpc = "sub"
  /\ gupdated' = re_sub(snap_to_grid_center_pattern, snap_to_grid_center_replacement,
                        re_sub(snap_to_grid_pattern, snap_to_grid_replacement, gcontent))
  /\ gpc' = "check"
  /\ UNCHANGED <<gdisk, gstart, gcontent, gout, gwrites, gruns, gprev>>
  /\ UNCHANGED <<fsVars, fileVars, runVars>>

(* content_updated == content, the function name is found *)
G_NoChangeFound ==
  /\ gpc = "check"
  /\ gupdated = gcontent
  /\ Find(gcontent) # 0
  /\ gout' = gout \o << Msg("ERROR: No changes were made", 0, 0),
                        Msg("Found snapToGrid function", 0, 0),
                        Msg("context", Find(gcontent), 0) >>
  /\ gpc' = "unchanged"
  /\ UNCHANGED <<gdisk, gstart, gcontent, gupdated, gwrites, gruns, gprev>>
  /\ UNCHANGED <<fsVars, fileVars, runVars>>

(* content_updated == content, the function name is not found *)
G_NoChangeNotFound ==
  /\ gpc = "check"
  /\ gupdated = gcontent
  /\ Find(gcontent) = 0
  /\ gout' = gout \o << Msg("ERROR: No changes were made", 0, 0),
                        Msg("Could not find snapToGrid function", 0, 0) >>
  /\ gpc' = "unchanged"
  /\ UNCHANGED <<gdisk, gstart, gcontent, gupdated, gwrites, gruns, gprev>>
  /\ UNCHANGED <<fsVars, fileVars, runVars>>

(* a write that does not compare the content first *)
G_Write_unguarded ==
  /\ gpc = "check"
  /\ gdisk' = gupdated
  /\ gwrites' = gwrites + 1
  /\ gout' = gout \o << Msg("Changes applied successfully", 0, 0), Msg("Updated", 0, 0) >>
  /\ gpc' = "written"
  /\ UNCHANGED <<gstart, gcontent, gupdated, gruns, gprev>>
  /\ UNCHANGED <<fsVars, fileVars, runVars>>

G_Write ==
  /\ gpc = "check"
  /\ gupdated # gcontent
  /\ gdisk' = gupdated
  /\ gwrites' = gwrites + 1
  /\ gout' = gout \o << Msg("Changes applied successfully", 0, 0), Msg("Updated", 0, 0) >>
  /\ gpc' = "written"
  /\ UNCHANGED <<gstart, gcontent, gupdated, gruns, gprev>>
  /\ UNCHANGED <<fsVars, fileVars, runVars>>

(* the write raises after the success line was printed *)
G_WriteError ==
  /\ gpc = "check"
  /\ gupdated # gcontent
  /\ gdisk' \in FailedWrite(gdisk, gupdated)
  /\ gwrites' = gwrites + 1
  /\ gout' = Append(gout, Msg("Changes applied successfully", 0, 0))
  /\ gpc' = "write_failed"
  /\ UNCHANGED <<gstart, gcontent, gupdated, gruns, gprev>>
  /\ UNCHANGED <<fsVars, fileVars, runVars>>

(* the script is started again on the file the previous run left *)
G_Rerun ==
  /\ gpc \in GridExits
  /\ gruns < MaxGridRuns
  /\ gruns' = gruns + 1
  /\ gprev' = gpc
  /\ gstart' = gdisk
  /\ gcontent' = <<>> /\ gupdated' = <<>> /\ gout' = <<>> /\ gwrites' = 0
  /\ gpc' = "read"
  /\ UNCHANGED gdisk
  /\ UNCHANGED <<fsVars, fileVars, runVars>>

NextGrid ==
  \/ G_ReadError \/ G_Read \/ G_Sub \/ G_NoChangeFound \/ G_NoChangeNotFound
  \/ G_Write \/ G_WriteError \/ G_Rerun

SpecGrid == InitGrid /\ [][NextGrid]_vars

(***************************************************************************)
(* Vocabulary of the claims                                                *)
(***************************************************************************)
(* the classification rule as the specification words it *)
ClaimRewritable(p) ==
  /\ StartsWith(p, <<".", "/">>) \/ StartsWith(p, <<".", ".", "/">>)
  /\ ~EndsWith(p, DotJs)

Captured(s) == pattern1(s) \/ pattern2(s)

AfterPasses == fpc \in {"compare", "done"}

Idx == 1..Len(original_content)

(* the resolution rule as the specification words it *)
ClaimResolved(p, dir) ==
  LET target == Resolve(dir, p)
      entry == target \in dirs /\ target \in indexed
  IN IF entry /\ ~EndsWith(p, SlashIndex) THEN p \o <<"/", "index", ".", "js">>
     ELSE IF entry /\ EndsWith(p, SlashIndex) THEN p \o <<".", "js">>
     ELSE p \o <<".", "js">>

(* the statement shapes the scan rule names *)
NamedShapes ==
  { <<"import">>,
    <<"import", "name", "from">>,
    <<"import", "{a}", "from">>,
    <<"export", "{a}", "from">>,
    <<"export", "*", "from">>,
    <<"import", "*", "as", "name", "from">>,
    <<"export", "*", "as", "name", "from">>,
    <<"import", "type", "name", "from">>,
    <<"import", "type", "{a}", "from">>,
    <<"export", "type", "{a}", "from">>,
    <<"export", "type", "*", "from">>,
    <<"import", "type", "*", "as", "name", "from">>,
    <<"export", "type", "*", "as", "name", "from">> }

DynamicImport(s) == s.pre = <<"import", "(">> /\ s.post = <<")">>

ExistingRoots == {r \in Roots : RootPath(r) \in dirs}

FilesAtStart == {rf \in ExistingRoots \X (1..MaxFiles + 1) : rf[2] <= Len(start_disk[rf[1]])}

RewritableIn(file) ==
  {i \in 1..Len(file) :
     /\ file[i].pre \in NamedShapes \/ DynamicImport(file[i])
     /\ ClaimRewritable(file[i].path)}

LastOut == IF out = <<>> THEN Msg("", 0, 0) ELSE out[Len(out)]

NoErrorThisRun == ioerrs = prev_errs

(***************************************************************************)
(* C1: every specifier captured by either pass is rewritten exactly when   *)
(* it begins with ./ or ../ and does not end with .js; a captured          *)
(* specifier that is not rewritable leaves its statement as it was and     *)
(* adds nothing to the change counter.                                     *)
(***************************************************************************)
C1_Classification ==
  AfterPasses =>
    /\ \A i \in Idx :
         Captured(original_content[i]) =>
           /\ (content[i].path # original_content[i].path)
                <=> ClaimRewritable(original_content[i].path)
           /\ ~ClaimRewritable(original_content[i].path)
                => content[i] = original_content[i]
    /\ changes = Cardinality({i \in Idx : /\ Captured(original_content[i])
                                          /\ ClaimRewritable(original_content[i].path)})

C1_Witness ==
  /\ fpc = "done"
  /\ \E i, j \in Idx :
       /\ Captured(original_content[i])
       /\ EndsWith(original_content[i].path, DotJs)
       /\ content[i] = original_content[i]
       /\ Captured(original_content[j])
       /\ content[j].path # original_content[j].path
       /\ changes = 1

(***************************************************************************)
(* C2: a rewritten specifier becomes <spec>/index.js when it resolves,     *)
(* from the importing file's directory, to a directory holding index.ts    *)
(* and does not end with /index; <spec>.js when it resolves to such a      *)
(* directory and ends with /index; <spec>.js otherwise.  ./foo without a   *)
(* directory foo gives ./foo.js; ./foo and ./foo/index with foo/index.ts   *)
(* both give ./foo/index.js.                                               *)
(***************************************************************************)
C2_Resolution ==
  AfterPasses =>
    \A i \in Idx :
      LET p == original_content[i].path
          q == content[i].path
          foo == file_dir \o <<Foo>>
      IN (Captured(original_content[i]) /\ ClaimRewritable(p)) =>
           /\ q = ClaimResolved(p, file_dir)
           /\ (p = <<".", "/", "foo">> /\ foo \notin dirs)
                => q = <<".", "/", "foo", ".", "js">>
           /\ (p = <<".", "/", "foo">> /\ foo \in dirs /\ foo \in indexed)
                => q = <<".", "/", "foo", "/", "index", ".", "js">>
           /\ (p = <<".", "/", "foo", "/", "index">> /\ foo \in dirs /\ foo \in indexed)
                => q = <<".", "/", "foo", "/", "index", ".", "js">>

C2_Witness ==
  /\ fpc = "done"
  /\ \E i \in Idx :
       /\ Captured(original_content[i])
       /\ original_content[i].path = <<".", "/", "foo", "/", "index">>
       /\ (file_dir \o <<Foo, Index>>) \in indexed
       /\ content[i].path = <<".", "/", "foo", "/", "index", ".", "js">>

(***************************************************************************)
(* C3: after one run without I/O errors every static import/export         *)
(* statement of a named shape, in every file of a processed root, whose    *)
(* specifier is relative and lacks .js has gained the extension.           *)
(***************************************************************************)
C3_AllNamedShapesFixed ==
  (pc = "done" /\ run = 1 /\ ioerrs = 0) =>
    \A rf \in FilesAtStart :
      \A i \in 1..Len(start_disk[rf[1]][rf[2]]) :
        LET s == start_disk[rf[1]][rf[2]][i]
        IN (s.pre \in NamedShapes /\ ClaimRewritable(s.path))
             => EndsWith(disk[rf[1]][rf[2]][i].path, DotJs)

(***************************************************************************)
(* C4: at the end of a run without I/O errors, Files modified is the       *)
(* number M of files that hold at least one rewritable specifier, Total    *)
(* changes is the sum of the per-file rewrite counts, and the status is 1  *)
(* exactly when M = 0.                                                     *)
(***************************************************************************)
C4_M == Cardinality({rf \in FilesAtStart : RewritableIn(start_disk[rf[1]][rf[2]]) # {}})

C4_FileCount(rf) ==
  FixContent(start_disk[rf[1]][rf[2]], RootPath(rf[1]), dirs, indexed).changes

RECURSIVE C4_Sum(_)
C4_Sum(S) ==
  IF S = {} THEN 0
  ELSE LET x == CHOOSE y \in S : TRUE IN C4_FileCount(x) + C4_Sum(S \ {x})

C4_Aggregate ==
  (pc = "done" /\ NoErrorThisRun) =>
    /\ LastOut = Msg("Summary", total_files, total_changes)
    /\ total_files = C4_M
    /\ total_changes = C4_Sum(FilesAtStart)
    /\ status = (IF C4_M = 0 THEN 1 ELSE 0)

(***************************************************************************)
(* C5: every rewrite of either pass adds exactly one to the per-file       *)
(* counter; the file is opened for writing only when the content after     *)
(* both passes differs from the content read; an unchanged file is not     *)
(* written and is reported as (False, 0).                                  *)
(***************************************************************************)
C5_CountAndWrite ==
  /\ changes = Cardinality(rew1) + Cardinality(rew2)
  /\ fwrites > 0 => content # original_content
  /\ (fpc = "done" /\ content = original_content) =>
       /\ fwrites = 0
       /\ fresult = [was_modified |-> FALSE, num_changes |-> 0]
       /\ (fout = <<>> => fdisk = original_content)

C5_Witness ==
  /\ fpc = "done"
  /\ rew1 # {} /\ rew2 # {}
  /\ fwrites = 1
  /\ fresult = [was_modified |-> TRUE, num_changes |-> 2]

(***************************************************************************)
(* C6: a read or write error on one file leaves the result (False, 0) and  *)
(* moves no counter, and the loop goes on with the next file; when the run *)
(* ends every file of every existing root was processed, every missing     *)
(* root was skipped with a warning, and the summary and a status are out.  *)
(***************************************************************************)
C6_ErrorStep ==
  ioerrs' > ioerrs =>
    /\ last'.was_modified = FALSE /\ last'.num_changes = 0
    /\ files_modified' = files_modified /\ dir_changes' = dir_changes
    /\ total_files' = total_files /\ total_changes' = total_changes
    /\ pc' = "files" /\ d' = d /\ f' = f + 1

C6_RunComplete ==
  pc = "done" =>
    /\ seen = {rf \in ExistingRoots \X (1..MaxFiles + 1) : rf[2] <= Len(disk[rf[1]])}
    /\ \A r \in Roots \ ExistingRoots :
         \E k \in 1..Len(out) : out[k] = Msg("[WARNING] Directory not found", r, 0)
    /\ LastOut = Msg("Summary", total_files, total_changes)
    /\ status \in {0, 1}

C6_ErrorsContained == [][C6_ErrorStep /\ C6_RunComplete']_vars

C6_Witness ==
  /\ pc = "done"
  /\ ioerrs > prev_errs
  /\ ExistingRoots # Roots
  /\ \E j, k \in 1..Len(out) :
       /\ j < k
       /\ out[j].msg \in {"Error reading", "Error writing"}
       /\ out[k].msg = "[OK]"

(***************************************************************************)
(* C7: a dynamic import specifier gets the result a static import of the   *)
(* same specifier gets, with either quote character, and in both passes a  *)
(* statement keeps the quote characters it had on both sides of the        *)
(* specifier.                                                              *)
(***************************************************************************)
C7_SameRules(i) ==
  pattern2(original_content[i]) =>
    content[i].path =
      replace_import_export(original_content[i], file_dir, dirs, indexed).stmt.path

C7_QuotesKept ==
  AfterPasses =>
    \A i \in Idx :
      Captured(original_content[i]) =>
        /\ C7_SameRules(i)
        /\ content[i].oq = original_content[i].oq
        /\ content[i].cq = original_content[i].cq

(***************************************************************************)
(* C8: the patcher opens the file for writing only if a pattern matched    *)
(* and the substitutions changed the content; when they change nothing the *)
(* file is left alone, the non-match message is printed, with the context  *)
(* when the function name is present, and the run ends normally.           *)
(***************************************************************************)
Occurs(pat, text) == \E i \in 1..Len(text) : MatchAt(text, pat, i)

Printed(m) == \E k \in 1..Len(gout) : gout[k].msg = m

C8_WriteOnlyOnChange ==
  /\ gwrites > 0 =>
       /\ gupdated # gcontent
       /\ Occurs(snap_to_grid_pattern, gcontent)
            \/ Occurs(snap_to_grid_center_pattern, gcontent)
  /\ (gpc \in {"check", "unchanged", "written", "write_failed"} /\ gupdated = gcontent) =>
       /\ gwrites = 0
       /\ gdisk = gstart
       /\ gpc \in {"check", "unchanged"}
  /\ gpc = "unchanged" =>
       /\ gupdated = gcontent
       /\ Printed("ERROR: No changes were made")
       /\ ~Printed("Changes applied successfully")
       /\ Find(gcontent) # 0 => gout[Len(gout)] = Msg("context", Find(gcontent), 0)

C8_Witness ==
  /\ gpc = "unchanged"
  /\ gruns = 1
  /\ Find(gcontent) # 0
  /\ Printed("Found snapToGrid function")
  /\ gdisk = gstart

(***************************************************************************)
(* C9: a run of the patcher that follows a completed run, whether that run *)
(* patched both functions, one, or none, leaves the file unchanged and     *)
(* prints the non-match diagnostic, not the success message.               *)
(***************************************************************************)
C9_SecondRunNoOp ==
  (gruns >= 2 /\ gprev \in {"written", "unchanged"}) =>
    /\ gdisk = gstart
    /\ gwrites = 0
    /\ gpc \notin {"written", "write_failed"}
    /\ gpc = "check" => gupdated = gcontent
    /\ gpc = "unchanged" =>
         /\ Printed("ERROR: No changes were made")
         /\ ~Printed("Changes applied successfully")

C9_Witness ==
  /\ gruns = 2
  /\ gprev = "written"
  /\ gpc = "unchanged"
  /\ Occurs(snap_to_grid_replacement, gdisk)
  /\ ~Occurs(snap_to_grid_center_replacement, gdisk)

(***************************************************************************)
(* C10: in a run that follows runs without I/O errors no specifier is      *)
(* rewritten and no file is written, so the run reports 0 files and 0      *)
(* changes and returns 1; every specifier a run rewrote ends with .js; in  *)
(* no run is a specifier rewritten by both passes.                         *)
(***************************************************************************)
C10_Idempotent ==
  /\ last.rew1 \cap last.rew2 = {}
  /\ \A rf \in FilesAtStart :
       \A i \in 1..Len(disk[rf[1]][rf[2]]) :
         disk[rf[1]][rf[2]][i].path # start_disk[rf[1]][rf[2]][i].path
           => EndsWith(disk[rf[1]][rf[2]][i].path, DotJs)
  /\ (run >= 2 /\ prev_errs = 0) =>
       /\ writes = {}
       /\ disk = start_disk
       /\ last.rew1 = {} /\ last.rew2 = {}
       /\ files_modified = 0 /\ dir_changes = 0
       /\ pc = "done" =>
            /\ total_files = 0 /\ total_changes = 0
            /\ status = 1
            /\ LastOut = Msg("Summary", 0, 0)

C10_Witness ==
  /\ run = 2 /\ prev_errs = 0 /\ pc = "done"
  /\ status = 1
  /\ \E rf \in FilesAtStart :
       \E i \in 1..Len(disk[rf[1]][rf[2]]) :
         /\ DynamicImport(disk[rf[1]][rf[2]][i])
         /\ EndsWith(disk[rf[1]][rf[2]][i].path, DotJs)

====
